---- MODULE Spec2Model ----
(***************************************************************************)
(* Transcription + enhancement orchestration of whisper-ui.                *)
(*                                                                         *)
(* The model covers the Transcription entity (domain/entities/             *)
(* transcription.py), the AudioFile validation rules, the SQLite           *)
(* repositories, the local file storage and the five orchestration use     *)
(* cases (Transcribe, Retranscribe, Enhance, Delete Transcription, Delete  *)
(* AudioFile).  The speech engine and the LLM are external ports: their    *)
(* outcomes are nondeterministic choices over small input sets.            *)
(*                                                                         *)
(* Strings are sequences of segments.  A segment is either one whitespace  *)
(* character or a block of text that neither starts nor ends with          *)
(* whitespace, so that str.strip() is computed exactly.  Optional[x] is a  *)
(* sequence of length at most one: None is <<>> and a present value v is   *)
(* <<v>>.                                                                  *)
(***************************************************************************)
EXTENDS Integers, Sequences, FiniteSets, TLC

VARIABLES
    ent,            \* Optional[Transcription]: a free-standing entity driven directly through its methods
    entCall,        \* outcome of the last method call on ent
    transcriptions, \* table "transcriptions": id -> row
    audio_files,    \* table "audio_files": id -> row
    blobs,          \* file paths present in the upload directory
    nextTid,        \* next fresh transcription id (uuid4)
    nextAid,        \* next fresh audio file id (uuid4)
    served,         \* number of requests accepted since the initial state
    whisper,        \* the speech service singleton: its model cache and the calls in progress
    tashkeel_sent,  \* the values of enable_tashkeel that upload requests carry
    repo_faults,    \* whether the database may fail a write (SQLAlchemyError)
    hist,           \* per transcription id created since the initial state: what its requests asked for and did, kept in no column
    pc,             \* per request: position inside its use case
    loc,            \* per request: local variables of execute()
    res             \* per request: outcome of the last finished execute()

vars == <<ent, entCall, transcriptions, audio_files, blobs, nextTid, nextAid, served, whisper, tashkeel_sent, repo_faults, hist, pc, loc, res>>

svcVars == <<transcriptions, audio_files, blobs, nextTid, nextAid, served, whisper, tashkeel_sent, repo_faults, hist, pc, loc, res>>

\* Everything but the speech service
orchVars == <<ent, entCall, transcriptions, audio_files, blobs, nextTid, nextAid, served, tashkeel_sent, repo_faults, hist, pc, loc, res>>

-----------------------------------------------------------------------------
(* Bounds *)

MaxTranscriptions == 2

MaxAudioFiles == 2

MaxRequests == 3

MaxCalls == 3

Procs == {1, 2}

Main == CHOOSE p \in Procs : \A q \in Procs : p <= q

-----------------------------------------------------------------------------
(* Optional values and strings *)

None == <<>>

Some(v) == <<v>>

IsNone(o) == o = <<>>

Val(o) == o[1]

Whitespace == {" ", "\t", "\n"}

RECURSIVE LStrip(_)
LStrip(s) ==
    IF s = <<>> THEN <<>>
    ELSE IF Head(s) \in Whitespace THEN LStrip(Tail(s)) ELSE s

RECURSIVE RStrip(_)
RStrip(s) ==
    IF s = <<>> THEN <<>>
    ELSE IF s[Len(s)] \in Whitespace THEN RStrip(SubSeq(s, 1, Len(s) - 1)) ELSE s

Strip(s) == RStrip(LStrip(s))

\* Python truthiness of "x and x.strip()" for an Optional[str]
HasText(o) == ~IsNone(o) /\ Strip(Val(o)) # <<>>

NoSpeech == <<"(No speech detected)">>

\* Texts the speech engine may return
TextInputs == {<<>>, <<" ">>, <<" ", "hi", "\n">>, NoSpeech}

\* Texts the LLM may return
EnhancedInputs == {<<>>, <<"\t">>, <<"Hi.", " ">>}

\* str(exception) of an exception raised by a port
MessageInputs == {<<>>, <<" ">>, <<"timeout", " ">>}

Models == {"base", "tiny"}

-----------------------------------------------------------------------------
(* Transcription entity *)

PENDING == "pending"

PROCESSING == "processing"

COMPLETED == "completed"

FAILED == "failed"

Statuses == {PENDING, PROCESSING, COMPLETED, FAILED}

\* Transcription(...) as the use cases construct it; timestamps and elapsed
\* times are abstracted to "set"
NewTranscription(id, afid, language, model, enable_llm, vad) ==
    [id |-> id,
     audio_file_id |-> afid,
     text |-> None,
     status |-> PENDING,
     language |-> language,
     completed_at |-> None,
     error_message |-> None,
     model |-> model,
     processing_time_seconds |-> None,
     enable_llm_enhancement |-> enable_llm,
     enhanced_text |-> None,
     llm_processing_time_seconds |-> None,
     llm_enhancement_status |-> None,
     llm_error_message |-> None,
     vad_filter_used |-> vad,
     enable_tashkeel |-> FALSE]

\* Outcome of a method call: the entity afterwards and the exception raised, if any
Ok(t) == [raised |-> FALSE, t |-> t, exc |-> <<>>]

Raise(t, msg) == [raised |-> TRUE, t |-> t, exc |-> msg]

mark_as_processing(t) ==
    IF t.status # PENDING
    THEN Raise(t, <<"Cannot process transcription in", " ", t.status, " ", "state.">>)
    ELSE Ok([t EXCEPT !.status = PROCESSING])

\* complete() without its status check
complete_unguarded(t, text, language, processing_time) ==
    Ok([t EXCEPT !.text = IF HasText(text) THEN Some(Strip(Val(text))) ELSE Some(NoSpeech),
                 !.language = language,
                 !.processing_time_seconds =
                     IF IsNone(processing_time) THEN @ ELSE processing_time,
                 !.status = COMPLETED,
                 !.completed_at = Some("set"),
                 !.error_message = None])

\* complete() storing the stripped text even when nothing is left of it
complete_keeps_blank(t, text, language, processing_time) ==
    IF t.status # PROCESSING
    THEN Raise(t, <<"Cannot complete transcription in", " ", t.status, " ", "state.">>)
    ELSE Ok([t EXCEPT !.text = Some(Strip(Val(text))),
                      !.language = language,
                      !.processing_time_seconds =
                          IF IsNone(processing_time) THEN @ ELSE processing_time,
                      !.status = COMPLETED,
                      !.completed_at = Some("set"),
                      !.error_message = None])

complete(t, text, language, processing_time) ==
    IF t.status # PROCESSING
    THEN Raise(t, <<"Cannot complete transcription in", " ", t.status, " ", "state.">>)
    ELSE Ok([t EXCEPT !.text = IF HasText(text) THEN Some(Strip(Val(text))) ELSE Some(NoSpeech),
                      !.language = language,
                      !.processing_time_seconds =
                          IF IsNone(processing_time) THEN @ ELSE processing_time,
                      !.status = COMPLETED,
                      !.completed_at = Some("set"),
                      !.error_message = None])

\* fail() without its empty-message check
fail_unchecked(t, error_message) ==
    Ok([t EXCEPT !.status = FAILED,
                 !.error_message = Some(Strip(Val(error_message))),
                 !.completed_at = Some("set")])

fail(t, error_message) ==
    IF ~HasText(error_message)
    THEN Raise(t, <<"Error message cannot be empty">>)
    ELSE Ok([t EXCEPT !.status = FAILED,
                      !.error_message = Some(Strip(Val(error_message))),
                      !.completed_at = Some("set")])

can_be_deleted(t) == t.status \in {COMPLETED, FAILED, PENDING}

\* can_be_enhanced() without the "(No speech detected)" comparison
can_be_enhanced_with_sentinel(t) ==
    /\ t.enable_llm_enhancement
    /\ t.status = COMPLETED
    /\ ~IsNone(t.text)
    /\ Strip(Val(t.text)) # <<>>
    /\ t.llm_enhancement_status \in {None, Some("failed")}

\* can_be_enhanced() whatever llm_enhancement_status is
can_be_enhanced_again(t) ==
    /\ t.enable_llm_enhancement
    /\ t.status = COMPLETED
    /\ ~IsNone(t.text)
    /\ Strip(Val(t.text)) # <<>>
    /\ Val(t.text) # NoSpeech

\* can_be_enhanced() also true while an enhancement is in progress
can_be_enhanced_in_flight(t) ==
    /\ t.enable_llm_enhancement
    /\ t.status = COMPLETED
    /\ ~IsNone(t.text)
    /\ Strip(Val(t.text)) # <<>>
    /\ Val(t.text) # NoSpeech
    /\ t.llm_enhancement_status \in {None, Some("failed"), Some("processing")}

\* can_be_enhanced() without the enable_llm_enhancement flag
can_be_enhanced_unflagged(t) ==
    /\ t.status = COMPLETED
    /\ ~IsNone(t.text)
    /\ Strip(Val(t.text)) # <<>>
    /\ Val(t.text) # NoSpeech
    /\ t.llm_enhancement_status \in {None, Some("failed")}

can_be_enhanced(t) ==
    /\ t.enable_llm_enhancement
    /\ t.status = COMPLETED
    /\ ~IsNone(t.text)
    /\ Strip(Val(t.text)) # <<>>
    /\ Val(t.text) # NoSpeech
    /\ t.llm_enhancement_status \in {None, Some("failed")}

mark_llm_processing(t) ==
    IF ~can_be_enhanced(t)
    THEN Raise(t, <<"Transcription cannot be enhanced.">>)
    ELSE Ok([t EXCEPT !.llm_enhancement_status = Some("processing")])

\* complete_llm_enhancement() leaving llm_error_message as it was
complete_llm_enhancement_keeps_error(t, enhanced_text, processing_time) ==
    IF t.llm_enhancement_status # Some("processing")
    THEN Raise(t, <<"Cannot complete LLM enhancement">>)
    ELSE IF ~HasText(enhanced_text)
    THEN Raise(t, <<"Enhanced text cannot be empty">>)
    ELSE Ok([t EXCEPT !.enhanced_text = Some(Strip(Val(enhanced_text))),
                      !.llm_processing_time_seconds = processing_time,
                      !.llm_enhancement_status = Some("completed")])

complete_llm_enhancement(t, enhanced_text, processing_time) ==
    IF t.llm_enhancement_status # Some("processing")
    THEN Raise(t, <<"Cannot complete LLM enhancement">>)
    ELSE IF ~HasText(enhanced_text)
    THEN Raise(t, <<"Enhanced text cannot be empty">>)
    ELSE Ok([t EXCEPT !.enhanced_text = Some(Strip(Val(enhanced_text))),
                      !.llm_processing_time_seconds = processing_time,
                      !.llm_enhancement_status = Some("completed"),
                      !.llm_error_message = None])

fail_llm_enhancement(t, error_message) ==
    IF ~HasText(error_message)
    THEN Raise(t, <<"Error message cannot be empty">>)
    ELSE Ok([t EXCEPT !.llm_enhancement_status = Some("failed"),
                      !.llm_error_message = Some(Strip(Val(error_message)))])

-----------------------------------------------------------------------------
(* AudioFile entity *)

SUPPORTED_AUDIO_TYPES ==
    {"audio/mpeg", "audio/mp3", "audio/wav", "audio/x-wav", "audio/wave", "audio/mp4",
     "audio/x-m4a", "audio/m4a", "audio/ogg", "audio/flac", "audio/x-flac", "audio/webm"}

max_file_size_mb == 25

max_duration_seconds == 30

MaxBytes == max_file_size_mb * 1024 * 1024

\* Upload inputs: declared MIME types, declared sizes, probed durations
MimeInputs == {"audio/wav", "text/plain"}

SizeInputs == {0, MaxBytes, MaxBytes + 1}

DurationInputs == {0, max_duration_seconds, max_duration_seconds + 1}

validate_file_type(mime_type) ==
    IF mime_type \notin SUPPORTED_AUDIO_TYPES
    THEN [raised |-> TRUE, exc |-> <<"Unsupported file type:", " ", mime_type>>]
    ELSE [raised |-> FALSE, exc |-> <<>>]

\* validate_file_size() without the ceiling
validate_file_size_unbounded(file_size_bytes) ==
    IF file_size_bytes <= 0
    THEN [raised |-> TRUE, exc |-> <<"File size must be greater than 0">>]
    ELSE [raised |-> FALSE, exc |-> <<>>]

validate_file_size(file_size_bytes) ==
    IF file_size_bytes <= 0
    THEN [raised |-> TRUE, exc |-> <<"File size must be greater than 0">>]
    ELSE IF file_size_bytes > MaxBytes
    THEN [raised |-> TRUE, exc |-> <<"File size exceeds maximum allowed size">>]
    ELSE [raised |-> FALSE, exc |-> <<>>]

validate_duration(duration_seconds) ==
    IF IsNone(duration_seconds)
    THEN [raised |-> TRUE, exc |-> <<"Audio duration must be calculated before validation">>]
    ELSE IF Val(duration_seconds) <= 0
    THEN [raised |-> TRUE, exc |-> <<"Audio duration must be greater than 0">>]
    ELSE IF Val(duration_seconds) > max_duration_seconds
    THEN [raised |-> TRUE, exc |-> <<"Audio duration exceeds maximum allowed duration">>]
    ELSE [raised |-> FALSE, exc |-> <<>>]

-----------------------------------------------------------------------------
(* Persistence and storage *)

\* SQLiteTranscriptionRepository._to_model: the columns of table "transcriptions"
ToModel(t) ==
    [id |-> t.id,
     audio_file_id |-> t.audio_file_id,
     text |-> t.text,
     status |-> t.status,
     language |-> t.language,
     completed_at |-> t.completed_at,
     error_message |-> t.error_message,
     model |-> t.model,
     processing_time_seconds |-> t.processing_time_seconds,
     enable_llm_enhancement |-> t.enable_llm_enhancement,
     enhanced_text |-> t.enhanced_text,
     llm_processing_time_seconds |-> t.llm_processing_time_seconds,
     llm_enhancement_status |-> t.llm_enhancement_status,
     llm_error_message |-> t.llm_error_message]

\* SQLiteTranscriptionRepository._to_entity: fields without a column take the dataclass default
ToEntity(m) ==
    [id |-> m.id,
     audio_file_id |-> m.audio_file_id,
     text |-> m.text,
     status |-> m.status,
     language |-> m.language,
     completed_at |-> m.completed_at,
     error_message |-> m.error_message,
     model |-> m.model,
     processing_time_seconds |-> m.processing_time_seconds,
     enable_llm_enhancement |-> m.enable_llm_enhancement,
     enhanced_text |-> m.enhanced_text,
     llm_processing_time_seconds |-> m.llm_processing_time_seconds,
     llm_enhancement_status |-> m.llm_enhancement_status,
     llm_error_message |-> m.llm_error_message,
     vad_filter_used |-> FALSE,
     enable_tashkeel |-> FALSE]

\* Table after INSERT of row m
Insert(table, m) == [i \in DOMAIN table \cup {m.id} |-> IF i = m.id THEN m ELSE table[i]]

\* Table after DELETE ... WHERE id = i
DeleteRow(table, i) == [j \in DOMAIN table \ {i} |-> table[j]]

\* SQLiteTranscriptionRepository.update: the row after the field assignments
UpdatedRow(m, t) ==
    [m EXCEPT !.text = t.text,
              !.status = t.status,
              !.language = t.language,
              !.completed_at = t.completed_at,
              !.error_message = t.error_message,
              !.processing_time_seconds = t.processing_time_seconds,
              !.enable_llm_enhancement = t.enable_llm_enhancement,
              !.enhanced_text = t.enhanced_text,
              !.llm_processing_time_seconds = t.llm_processing_time_seconds,
              !.llm_enhancement_status = t.llm_enhancement_status,
              !.llm_error_message = t.llm_error_message]

\* An update that reports success and writes nothing
Update_unwritten(table, t) ==
    [raised |-> FALSE, table |-> table, t |-> t, exc |-> <<>>]

\* An update that inserts the row when it is gone
Update_upsert(table, t) ==
    LET row == IF t.id \in DOMAIN table THEN UpdatedRow(table[t.id], t) ELSE ToModel(t)
    IN [raised |-> FALSE,
        table |-> [id \in DOMAIN table \cup {t.id} |-> IF id = t.id THEN row ELSE table[id]],
        t |-> ToEntity(row),
        exc |-> <<>>]

\* SQLiteTranscriptionRepository.update: raises RepositoryException when the row is gone
Update(table, t) ==
    IF t.id \notin DOMAIN table
    THEN [raised |-> TRUE, table |-> table, t |-> t, exc |-> <<"Transcription", " ", "not found">>]
    ELSE [raised |-> FALSE,
          table |-> [table EXCEPT ![t.id] = UpdatedRow(table[t.id], t)],
          t |-> ToEntity(UpdatedRow(table[t.id], t)),
          exc |-> <<>>]

\* SQLiteTranscriptionRepository.get_by_audio_file_id: ids ordered by created_at descending
RECURSIVE DescSeq(_)
DescSeq(S) ==
    IF S = {} THEN <<>>
    ELSE LET m == CHOOSE x \in S : \A y \in S : y <= x
         IN <<m>> \o DescSeq(S \ {m})

get_by_audio_file_id(table, afid) ==
    DescSeq({i \in DOMAIN table : table[i].audio_file_id = afid})

\* LocalFileStorage.save: the absolute path built from the file id
FilePath(file_id) == <<"uploads", file_id>>

\* LocalFileStorage.exists
exists(files, file_path) == file_path \in files

\* A delete that leaves the file in place
delete_keeps_file(files, file_path) == files

\* LocalFileStorage.delete: removes the file when it is there
delete(files, file_path) == files \ {file_path}

\* file_storage.delete_file: neither FileStorageInterface nor LocalFileStorage
\* defines it, so the attribute lookup raises AttributeError
delete_file(files, file_path) ==
    [raised |-> TRUE, files |-> files, exc |-> <<"object has no attribute 'delete_file'">>]

-----------------------------------------------------------------------------
(* Requests: local variables of execute() and the outcome it leaves *)

\* upload_dto as the router builds it (Retranscribe reads model and
\* enable_llm_enhancement from its keyword arguments)
DtoInit ==
    [mime_type |-> "audio/wav",
     file_size |-> MaxBytes,
     model |-> "base",
     enable_llm_enhancement |-> FALSE,
     enable_tashkeel |-> FALSE,
     vad_filter |-> FALSE]

\* enable_tashkeel of an upload request; it only applies when
\* enable_llm_enhancement is set
TashkeelInputs(enable) == IF enable THEN tashkeel_sent ELSE {FALSE}

\* Arguments llm_service.enhance_transcription receives for transcription t:
\* text and language are passed, enable_tashkeel is left to its default
PortCall(t) == [text |-> t.text, language |-> t.language, enable_tashkeel |-> FALSE]

LocInit ==
    [op |-> "none",               \* the use case being executed
     arg |-> 0,                   \* transcription_id / audio_file_id argument
     dto |-> DtoInit,             \* upload_dto / keyword arguments
     audio_file |-> None,         \* audio_file
     t |-> None,                  \* transcription / saved_transcription
     before |-> None,             \* the transcription as get_by_id returned it
     all_transcriptions |-> <<>>, \* all_transcriptions / transcriptions (ids)
     success |-> FALSE,           \* success
     exc |-> <<>>,                \* exception being re-raised after cleanup
     result |-> None,             \* result['text'] of speech_service.transcribe
     speech |-> "none",           \* how speech_service.transcribe ended
     port |-> None,               \* arguments of the llm_service.enhance_transcription call
     enhanced |-> None,           \* llm_result['enhanced_text']
     llm |-> "none"]              \* how llm_service.enhance_transcription ended

ResInit == [kind |-> "none", value |-> None, exc |-> <<>>, frame |-> LocInit]

\* execute() ends: kind is "return" or "raise", frame its locals at that point
Finish(p, l, kind, value, exc) ==
    /\ pc' = [pc EXCEPT ![p] = "idle"]
    /\ loc' = [loc EXCEPT ![p] = LocInit]
    /\ res' = [res EXCEPT ![p] = [kind |-> kind, value |-> value, exc |-> exc, frame |-> l]]

\* execute() continues at the next await
Goto(p, l, next) ==
    /\ pc' = [pc EXCEPT ![p] = next]
    /\ loc' = [loc EXCEPT ![p] = l]
    /\ res' = [res EXCEPT ![p] = ResInit]

\* "except Exception as e: saved_transcription.fail(str(e))"; an exception
\* raised by fail() inside the handler leaves execute()
OuterExcept(p, l, msg) ==
    LET r == fail(Val(l.t), Some(msg))
    IN IF r.raised
       THEN Finish(p, l, "raise", None, r.exc)
       ELSE Goto(p, [l EXCEPT !.t = Some(r.t)], "final")

\* "except Exception as llm_error: saved_transcription.fail_llm_enhancement(str(llm_error))";
\* the handler sits inside the outer try, so what it raises reaches OuterExcept
InnerExcept(p, l, msg) ==
    LET r == fail_llm_enhancement(Val(l.t), Some(msg))
    IN IF r.raised
       THEN OuterExcept(p, l, r.exc)
       ELSE Goto(p, [l EXCEPT !.t = Some(r.t)], "final")

\* Positions at which execute() is suspended on the event loop: before a
\* request is accepted, and while file_storage.save, speech_service.transcribe
\* or llm_service.enhance_transcription is awaited.  The repositories and
\* file_storage.delete are coroutines that never suspend.
Yielded == {"idle", "t_save", "speech", "llm", "e_llm"}

\* The event loop may run request p: every other request is suspended
Scheduled(p) == \A q \in Procs \ {p} : pc[q] \in Yielded

-----------------------------------------------------------------------------
(* Transcribe *)

\* Steps 1-2: build the AudioFile, validate type and size.  The request's
\* other fields are drawn where execute() first reads them.
Transcribe_Validate(p) ==
    /\ pc[p] = "idle"
    /\ Scheduled(p)
    /\ IsNone(ent)
    /\ served < MaxRequests
    /\ served' = served + 1
    /\ nextAid <= MaxAudioFiles
    /\ Cardinality(DOMAIN hist) < MaxTranscriptions
    /\ \E mime \in MimeInputs, size \in SizeInputs :
          LET l == [LocInit EXCEPT !.op = "transcribe",
                                   !.dto = [DtoInit EXCEPT !.mime_type = mime, !.file_size = size]]
              v1 == validate_file_type(mime)
              v2 == validate_file_size(size)
          IN IF v1.raised THEN Finish(p, l, "raise", None, v1.exc)
             ELSE IF v2.raised THEN Finish(p, l, "raise", None, v2.exc)
             ELSE Goto(p, l, "t_save")
    /\ UNCHANGED <<ent, entCall, whisper, tashkeel_sent, repo_faults, hist, transcriptions, audio_files, blobs, nextTid, nextAid>>

\* Step 3: file_storage.save writes the blob, or raises ServiceException
Transcribe_Save(p) ==
    /\ pc[p] = "t_save"
    /\ Scheduled(p)
    /\ \/ /\ blobs' = blobs \cup {FilePath(nextAid)}
          /\ nextAid' = nextAid + 1
          /\ Goto(p, [loc[p] EXCEPT !.audio_file =
                          Some([id |-> nextAid,
                                file_path |-> FilePath(nextAid),
                                duration_seconds |-> None])], "t_probe")
       \/ /\ Finish(p, loc[p], "raise", None, <<"Failed to save file:", " ", "disk full">>)
          /\ UNCHANGED <<blobs, nextAid>>
    /\ UNCHANGED <<ent, entCall, whisper, tashkeel_sent, repo_faults, hist, transcriptions, audio_files, nextTid, served>>

\* Step 3.5: exists check, duration probe, validate_duration
Transcribe_Probe(p) ==
    /\ pc[p] = "t_probe"
    /\ Scheduled(p)
    /\ LET af == Val(loc[p].audio_file)
       IN IF ~exists(blobs, af.file_path)
          THEN Goto(p, [loc[p] EXCEPT !.exc = <<"File was not saved properly">>], "t_cleanup")
          ELSE \/ \E d \in DurationInputs :
                    LET v == validate_duration(Some(d))
                    IN IF v.raised
                       THEN Goto(p, [loc[p] EXCEPT !.exc = v.exc,
                                                   !.audio_file = Some([af EXCEPT !.duration_seconds = Some(d)])],
                                 "t_cleanup")
                       ELSE Goto(p, [loc[p] EXCEPT !.audio_file =
                                         Some([af EXCEPT !.duration_seconds = Some(d)])],
                                 "t_create_audio")
               \/ \E msg \in MessageInputs :
                    Goto(p, [loc[p] EXCEPT !.exc = <<"Failed to extract audio duration:", " ">> \o msg],
                         "t_cleanup")
    /\ UNCHANGED <<ent, entCall, whisper, tashkeel_sent, repo_faults, hist, transcriptions, audio_files, blobs, nextTid, nextAid, served>>

\* Step 3.5, except branches: delete the stored file, then raise
Transcribe_Cleanup(p) ==
    /\ pc[p] = "t_cleanup"
    /\ Scheduled(p)
    /\ blobs' = delete(blobs, Val(loc[p].audio_file).file_path)
    /\ Finish(p, loc[p], "raise", None, loc[p].exc)
    /\ UNCHANGED <<ent, entCall, whisper, tashkeel_sent, repo_faults, hist, transcriptions, audio_files, nextTid, nextAid, served>>

\* Steps 4-5: audio_file_repo.create, then construct the PENDING Transcription
\* from upload_dto.model, .enable_llm_enhancement and .vad_filter
Transcribe_CreateAudioFile(p) ==
    /\ pc[p] = "t_create_audio"
    /\ Scheduled(p)
    /\ \/ \E model \in Models, enable \in BOOLEAN, vad \in BOOLEAN :
          \E tashkeel \in TashkeelInputs(enable) :
             LET af == Val(loc[p].audio_file)
             IN /\ audio_files' = Insert(audio_files, af)
                /\ nextTid' = nextTid + 1
                /\ Goto(p, [loc[p] EXCEPT !.dto = [@ EXCEPT !.model = model,
                                                            !.enable_llm_enhancement = enable,
                                                            !.enable_tashkeel = tashkeel,
                                                            !.vad_filter = vad],
                                          !.t = Some(NewTranscription(nextTid, af.id, None, model,
                                                                      enable, vad))],
                        "create_t")
       \/ /\ repo_faults
          /\ Finish(p, loc[p], "raise", None, <<"Failed to create audio file">>)
          /\ UNCHANGED <<audio_files, nextTid>>
    /\ UNCHANGED <<ent, entCall, whisper, tashkeel_sent, repo_faults, hist, transcriptions, blobs, nextAid, served>>

-----------------------------------------------------------------------------
(* Steps shared by Transcribe (6-8) and Retranscribe (4-6) *)

\* A transcription is created by a request that asked for enable_tashkeel
Started(h, id, tashkeel) ==
    [i \in DOMAIN h \cup {id} |->
        IF i = id THEN [enable_tashkeel |-> tashkeel, retries |-> 0] ELSE h[i]]

\* mark_llm_processing() has succeeded on transcription t, whose enhancement
\* had or had not failed before
Marked(h, t) ==
    IF t.id \in DOMAIN h /\ t.llm_enhancement_status = Some("failed")
    THEN [h EXCEPT ![t.id].retries = @ + 1]
    ELSE h

\* transcription_repo.create, then mark_as_processing()
CreateTranscription(p) ==
    /\ pc[p] = "create_t"
    /\ Scheduled(p)
    /\ \/ LET m == ToModel(Val(loc[p].t))
              r == mark_as_processing(ToEntity(m))
              l == [loc[p] EXCEPT !.t = Some(r.t)]
          IN /\ transcriptions' = Insert(transcriptions, m)
             /\ hist' = Started(hist, m.id, loc[p].dto.enable_tashkeel)
             /\ IF r.raised THEN OuterExcept(p, l, r.exc) ELSE Goto(p, l, "upd_processing")
       \/ /\ repo_faults
          /\ Finish(p, loc[p], "raise", None, <<"Failed to create transcription">>)
          /\ UNCHANGED <<transcriptions, hist>>
    /\ UNCHANGED <<ent, entCall, whisper, tashkeel_sent, repo_faults, audio_files, blobs, nextTid, nextAid, served>>

\* transcription_repo.update persisting PROCESSING
UpdateProcessing(p) ==
    /\ pc[p] = "upd_processing"
    /\ Scheduled(p)
    /\ LET u == Update(transcriptions, Val(loc[p].t))
       IN /\ transcriptions' = u.table
          /\ IF u.raised THEN OuterExcept(p, loc[p], u.exc) ELSE Goto(p, loc[p], "speech")
    /\ UNCHANGED <<ent, entCall, whisper, tashkeel_sent, repo_faults, hist, audio_files, blobs, nextTid, nextAid, served>>

\* speech_service.transcribe returns: complete(), then mark_llm_processing() when requested
SpeechReturns(p, text) ==
    LET c == complete(Val(loc[p].t), Some(text), Some("en"), Some("set"))
        l == [loc[p] EXCEPT !.t = Some(c.t), !.result = Some(text), !.speech = "returned"]
        m == mark_llm_processing(c.t)
    IN IF c.raised THEN OuterExcept(p, l, c.exc)
       ELSE IF ~loc[p].dto.enable_llm_enhancement THEN Goto(p, l, "final")
       ELSE IF m.raised THEN InnerExcept(p, l, m.exc)
       ELSE Goto(p, [l EXCEPT !.t = Some(m.t)], "upd_llm")

\* speech_service.transcribe returns a text or raises
Speech(p) ==
    /\ pc[p] = "speech"
    /\ Scheduled(p)
    /\ \/ \E text \in TextInputs : SpeechReturns(p, text)
       \/ \E msg \in MessageInputs : OuterExcept(p, [loc[p] EXCEPT !.speech = "raised"], msg)
    /\ UNCHANGED <<ent, entCall, whisper, tashkeel_sent, repo_faults, hist, transcriptions, audio_files, blobs, nextTid, nextAid, served>>

\* transcription_repo.update persisting llm_enhancement_status = processing
UpdateLlm(p) ==
    /\ pc[p] = "upd_llm"
    /\ Scheduled(p)
    /\ LET u == Update(transcriptions, Val(loc[p].t))
       IN /\ transcriptions' = u.table
          /\ IF u.raised THEN InnerExcept(p, loc[p], u.exc) ELSE Goto(p, loc[p], "llm")
    /\ UNCHANGED <<ent, entCall, whisper, tashkeel_sent, repo_faults, hist, audio_files, blobs, nextTid, nextAid, served>>

\* llm_service.enhance_transcription returns: complete_llm_enhancement()
LlmReturns(p, text) ==
    LET h == complete_llm_enhancement(Val(loc[p].t), Some(text), Some("set"))
        l == [loc[p] EXCEPT !.t = Some(h.t), !.llm = "returned", !.enhanced = Some(text),
                            !.port = Some(PortCall(Val(loc[p].t)))]
    IN IF h.raised THEN InnerExcept(p, l, h.exc) ELSE Goto(p, l, "final")

\* llm_service.enhance_transcription returns a text or raises
Llm(p) ==
    /\ pc[p] = "llm"
    /\ Scheduled(p)
    /\ \/ \E text \in EnhancedInputs : LlmReturns(p, text)
       \/ \E msg \in MessageInputs :
            InnerExcept(p, [loc[p] EXCEPT !.llm = "raised",
                                          !.port = Some(PortCall(Val(loc[p].t)))], msg)
    /\ UNCHANGED <<ent, entCall, whisper, tashkeel_sent, repo_faults, hist, transcriptions, audio_files, blobs, nextTid, nextAid, served>>

\* Final transcription_repo.update and return of the DTO
Final(p) ==
    /\ pc[p] = "final"
    /\ Scheduled(p)
    /\ LET u == Update(transcriptions, Val(loc[p].t))
       IN /\ transcriptions' = u.table
          /\ IF u.raised
             THEN Finish(p, loc[p], "raise", None, u.exc)
             ELSE Finish(p, loc[p], "return", Some(u.t), <<>>)
    /\ UNCHANGED <<ent, entCall, whisper, tashkeel_sent, repo_faults, hist, audio_files, blobs, nextTid, nextAid, served>>

-----------------------------------------------------------------------------
(* Retranscribe *)

\* Step 1: audio_file_repo.get_by_id.  model and enable_llm_enhancement are
\* drawn where execute() first reads them.
Retranscribe_Start(p) ==
    /\ pc[p] = "idle"
    /\ Scheduled(p)
    /\ IsNone(ent)
    /\ served < MaxRequests
    /\ served' = served + 1
    /\ Cardinality(DOMAIN hist) < MaxTranscriptions
    /\ \E afid \in 1..MaxAudioFiles :
          LET l == [LocInit EXCEPT !.op = "retranscribe", !.arg = afid]
          IN IF afid \notin DOMAIN audio_files
             THEN Finish(p, l, "raise", None, <<"Audio file", " ", "not found">>)
             ELSE Goto(p, [l EXCEPT !.audio_file = Some(audio_files[afid])], "r_check")
    /\ UNCHANGED <<ent, entCall, whisper, tashkeel_sent, repo_faults, hist, transcriptions, audio_files, blobs, nextTid, nextAid>>

\* The lookup testing for PENDING instead of COMPLETED
ExistingCompleted_pending(table, ids, model) ==
    LET hits == {k \in 1..Len(ids) :
                    table[ids[k]].model = model /\ table[ids[k]].status = PENDING}
    IN IF hits = {} THEN None
       ELSE Some(ids[CHOOSE k \in hits : \A j \in hits : k <= j])

\* The first transcription of the list with this model and status COMPLETED
ExistingCompleted(table, ids, model) ==
    LET hits == {k \in 1..Len(ids) :
                    table[ids[k]].model = model /\ table[ids[k]].status = COMPLETED}
    IN IF hits = {} THEN None
       ELSE Some(ids[CHOOSE k \in hits : \A j \in hits : k <= j])

\* Steps 2-3: return the existing COMPLETED transcription, or construct a new one
Retranscribe_Check(p) ==
    /\ pc[p] = "r_check"
    /\ Scheduled(p)
    /\ \E model \in Models, enable \in BOOLEAN :
          LET existing == get_by_audio_file_id(transcriptions, loc[p].arg)
              hit == ExistingCompleted(transcriptions, existing, model)
              l == [loc[p] EXCEPT !.all_transcriptions = existing,
                                  !.dto = [@ EXCEPT !.model = model,
                                                    !.enable_llm_enhancement = enable]]
          IN IF ~IsNone(hit)
             THEN /\ Finish(p, l, "return", Some(ToEntity(transcriptions[Val(hit)])), <<>>)
                  /\ UNCHANGED nextTid
             ELSE /\ nextTid' = nextTid + 1
                  /\ Goto(p, [l EXCEPT !.t = Some(NewTranscription(nextTid,
                                                      Val(loc[p].audio_file).id, None,
                                                      model, enable, FALSE))],
                          "create_t")
    /\ UNCHANGED <<ent, entCall, whisper, tashkeel_sent, repo_faults, hist, transcriptions, audio_files, blobs, nextAid, served>>

-----------------------------------------------------------------------------
(* Enhance *)

\* Steps 1-3: get_by_id, can_be_enhanced() check, mark_llm_processing()
Enhance_Start(p) ==
    /\ pc[p] = "idle"
    /\ Scheduled(p)
    /\ IsNone(ent)
    /\ served < MaxRequests
    /\ served' = served + 1
    /\ \E id \in 1..MaxTranscriptions :
          LET l == [LocInit EXCEPT !.op = "enhance", !.arg = id]
          IN IF id \notin DOMAIN transcriptions
             THEN Finish(p, l, "raise", None, <<"Transcription", " ", "not found">>)
             ELSE LET t == ToEntity(transcriptions[id])
                      m == mark_llm_processing(t)
                      lt == [l EXCEPT !.before = Some(t), !.t = Some(m.t)]
                  IN IF ~can_be_enhanced(t)
                     THEN Finish(p, lt, "raise", None, <<"Transcription cannot be enhanced.">>)
                     ELSE IF m.raised THEN Finish(p, lt, "raise", None, m.exc)
                     ELSE Goto(p, lt, "e_update")
    /\ hist' = IF loc'[p].op = "enhance" /\ pc'[p] = "e_update"
               THEN Marked(hist, Val(loc'[p].before))
               ELSE hist
    /\ UNCHANGED <<ent, entCall, whisper, tashkeel_sent, repo_faults, transcriptions, audio_files, blobs, nextTid, nextAid>>

\* Step 3: transcription_repo.update persisting llm_enhancement_status = processing
Enhance_Update(p) ==
    /\ pc[p] = "e_update"
    /\ Scheduled(p)
    /\ LET u == Update(transcriptions, Val(loc[p].t))
       IN /\ transcriptions' = u.table
          /\ IF u.raised THEN Finish(p, loc[p], "raise", None, u.exc) ELSE Goto(p, loc[p], "e_llm")
    /\ UNCHANGED <<ent, entCall, whisper, tashkeel_sent, repo_faults, hist, audio_files, blobs, nextTid, nextAid, served>>

\* "except Exception as e: transcription.fail_llm_enhancement(str(e))"; what
\* the handler raises leaves execute()
EnhanceExcept(p, l, msg) ==
    LET r == fail_llm_enhancement(Val(l.t), Some(msg))
    IN IF r.raised
       THEN Finish(p, l, "raise", None, r.exc)
       ELSE Goto(p, [l EXCEPT !.t = Some(r.t)], "e_final")

\* Steps 4-5: llm_service.enhance_transcription returns a text or raises
Enhance_Llm(p) ==
    /\ pc[p] = "e_llm"
    /\ Scheduled(p)
    /\ \/ \E text \in EnhancedInputs :
            LET h == complete_llm_enhancement(Val(loc[p].t), Some(text), Some("set"))
                l == [loc[p] EXCEPT !.t = Some(h.t), !.llm = "returned", !.enhanced = Some(text),
                                    !.port = Some(PortCall(Val(loc[p].t)))]
            IN IF h.raised THEN EnhanceExcept(p, l, h.exc) ELSE Goto(p, l, "e_final")
       \/ \E msg \in MessageInputs :
            EnhanceExcept(p, [loc[p] EXCEPT !.llm = "raised",
                                            !.port = Some(PortCall(Val(loc[p].t)))], msg)
    /\ UNCHANGED <<ent, entCall, whisper, tashkeel_sent, repo_faults, hist, transcriptions, audio_files, blobs, nextTid, nextAid, served>>

\* Step 6: final transcription_repo.update and return of the DTO
Enhance_Final(p) ==
    /\ pc[p] = "e_final"
    /\ Scheduled(p)
    /\ LET u == Update(transcriptions, Val(loc[p].t))
       IN /\ transcriptions' = u.table
          /\ IF u.raised
             THEN Finish(p, loc[p], "raise", None, u.exc)
             ELSE Finish(p, loc[p], "return", Some(u.t), <<>>)
    /\ UNCHANGED <<ent, entCall, whisper, tashkeel_sent, repo_faults, hist, audio_files, blobs, nextTid, nextAid, served>>

-----------------------------------------------------------------------------
(* Delete Transcription *)

\* transcription_repo.get_by_id; returns False when the id is unknown
DeleteTranscription_Start(p) ==
    /\ pc[p] = "idle"
    /\ Scheduled(p)
    /\ IsNone(ent)
    /\ served < MaxRequests
    /\ served' = served + 1
    /\ \E id \in 1..MaxTranscriptions :
          LET l == [LocInit EXCEPT !.op = "delete_transcription", !.arg = id]
          IN IF id \notin DOMAIN transcriptions
             THEN Finish(p, l, "return", Some(FALSE), <<>>)
             ELSE Goto(p, [l EXCEPT !.t = Some(ToEntity(transcriptions[id]))], "d_list")
    /\ UNCHANGED <<ent, entCall, whisper, tashkeel_sent, repo_faults, hist, transcriptions, audio_files, blobs, nextTid, nextAid>>

\* transcription_repo.get_by_audio_file_id
DeleteTranscription_List(p) ==
    /\ pc[p] = "d_list"
    /\ Scheduled(p)
    /\ Goto(p, [loc[p] EXCEPT !.all_transcriptions =
                    get_by_audio_file_id(transcriptions, Val(loc[p].t).audio_file_id)],
            "d_delete")
    /\ UNCHANGED <<ent, entCall, whisper, tashkeel_sent, repo_faults, hist, transcriptions, audio_files, blobs, nextTid, nextAid, served>>

\* Cascade policy (a): every deletion counts as the last one
IsLastTranscription_always(all_transcriptions) == TRUE

\* The test made on a list read after the deletion
IsLastTranscription_after(all_transcriptions) == Len(all_transcriptions) = 0

\* "if len(all_transcriptions) == 1": this was the last transcription
IsLastTranscription(all_transcriptions) == Len(all_transcriptions) = 1

\* transcription_repo.delete, then the last-transcription test
DeleteTranscription_Delete(p) ==
    /\ pc[p] = "d_delete"
    /\ Scheduled(p)
    /\ transcriptions' = DeleteRow(transcriptions, loc[p].arg)
    /\ LET l == [loc[p] EXCEPT !.success = loc[p].arg \in DOMAIN transcriptions]
       IN IF IsLastTranscription(loc[p].all_transcriptions)
          THEN Goto(p, l, "d_get_audio")
          ELSE Finish(p, l, "return", Some(l.success), <<>>)
    /\ UNCHANGED <<ent, entCall, whisper, tashkeel_sent, repo_faults, hist, audio_files, blobs, nextTid, nextAid, served>>

\* audio_file_repo.get_by_id
DeleteTranscription_GetAudio(p) ==
    /\ pc[p] = "d_get_audio"
    /\ Scheduled(p)
    /\ LET afid == Val(loc[p].t).audio_file_id
       IN IF afid \in DOMAIN audio_files
          THEN Goto(p, [loc[p] EXCEPT !.audio_file = Some(audio_files[afid])], "d_blob")
          ELSE Finish(p, loc[p], "return", Some(loc[p].success), <<>>)
    /\ UNCHANGED <<ent, entCall, whisper, tashkeel_sent, repo_faults, hist, transcriptions, audio_files, blobs, nextTid, nextAid, served>>

\* file_storage.delete(audio_file.file_path); its exceptions are swallowed
DeleteTranscription_Blob(p) ==
    /\ pc[p] = "d_blob"
    /\ Scheduled(p)
    /\ blobs' = delete(blobs, Val(loc[p].audio_file).file_path)
    /\ Goto(p, loc[p], "d_audio")
    /\ UNCHANGED <<ent, entCall, whisper, tashkeel_sent, repo_faults, hist, transcriptions, audio_files, nextTid, nextAid, served>>

\* audio_file_repo.delete, return success
DeleteTranscription_Audio(p) ==
    /\ pc[p] = "d_audio"
    /\ Scheduled(p)
    /\ audio_files' = DeleteRow(audio_files, Val(loc[p].t).audio_file_id)
    /\ Finish(p, loc[p], "return", Some(loc[p].success), <<>>)
    /\ UNCHANGED <<ent, entCall, whisper, tashkeel_sent, repo_faults, hist, transcriptions, blobs, nextTid, nextAid, served>>

-----------------------------------------------------------------------------
(* Delete AudioFile *)

\* Step 1: audio_file_repo.get_by_id
DeleteAudioFile_Start(p) ==
    /\ pc[p] = "idle"
    /\ Scheduled(p)
    /\ IsNone(ent)
    /\ served < MaxRequests
    /\ served' = served + 1
    /\ \E afid \in 1..MaxAudioFiles :
          LET l == [LocInit EXCEPT !.op = "delete_audio_file", !.arg = afid]
          IN IF afid \notin DOMAIN audio_files
             THEN Finish(p, l, "raise", None, <<"Audio file", " ", "not found">>)
             ELSE Goto(p, [l EXCEPT !.audio_file = Some(audio_files[afid])], "a_list")
    /\ UNCHANGED <<ent, entCall, whisper, tashkeel_sent, repo_faults, hist, transcriptions, audio_files, blobs, nextTid, nextAid>>

\* Steps 2-3: get_by_audio_file_id, then file_storage.delete_file inside try/except
DeleteAudioFile_List(p) ==
    /\ pc[p] = "a_list"
    /\ Scheduled(p)
    /\ LET ids == get_by_audio_file_id(transcriptions, loc[p].arg)
           d == delete_file(blobs, Val(loc[p].audio_file).file_path)
       IN /\ blobs' = d.files
          /\ Goto(p, [loc[p] EXCEPT !.all_transcriptions = ids],
                  IF ids = <<>> THEN "a_audio" ELSE "a_loop")
    /\ UNCHANGED <<ent, entCall, whisper, tashkeel_sent, repo_faults, hist, transcriptions, audio_files, nextTid, nextAid, served>>

\* Step 4: one iteration of "for transcription in transcriptions: delete"
DeleteAudioFile_Loop(p) ==
    /\ pc[p] = "a_loop"
    /\ Scheduled(p)
    /\ LET ids == loc[p].all_transcriptions
       IN /\ transcriptions' = DeleteRow(transcriptions, Head(ids))
          /\ Goto(p, [loc[p] EXCEPT !.all_transcriptions = Tail(ids)],
                  IF Tail(ids) = <<>> THEN "a_audio" ELSE "a_loop")
    /\ UNCHANGED <<ent, entCall, whisper, tashkeel_sent, repo_faults, hist, audio_files, blobs, nextTid, nextAid, served>>

\* Step 5: audio_file_repo.delete
DeleteAudioFile_Audio(p) ==
    /\ pc[p] = "a_audio"
    /\ Scheduled(p)
    /\ audio_files' = DeleteRow(audio_files, loc[p].arg)
    /\ Finish(p, loc[p], "return", None, <<>>)
    /\ UNCHANGED <<ent, entCall, whisper, tashkeel_sent, repo_faults, hist, transcriptions, blobs, nextTid, nextAid, served>>

-----------------------------------------------------------------------------
(* Speech service: the model cache of FasterWhisperService / WhisperService *)

\* One call of _load_model_async: where it is, the model it asked for, what
\* it returned (a model instance) or that it raised
CallInit == [at |-> "idle", model_name |-> "base", model |-> None, raised |-> FALSE]

\* self.models = {} after __init__; loads counts the model constructions per
\* name, calls the transcribe calls accepted so far
WhisperInit ==
    [models |-> [m \in {} |-> None],
     loads |-> [m \in Models |-> 0],
     calls |-> 0,
     call |-> [p \in Procs |-> CallInit]]

\* "if model_name in self.models: return self.models[model_name]"; otherwise
\* the call goes on to "await loop.run_in_executor(...)" and yields
LoadModel_Check(p) ==
    /\ whisper.call[p].at = "idle"
    /\ whisper.calls < MaxCalls
    /\ \E model_name \in Models :
          whisper' = [whisper EXCEPT
              !.calls = @ + 1,
              !.call[p] = IF model_name \in DOMAIN whisper.models
                          THEN [CallInit EXCEPT !.model_name = model_name,
                                                !.model = Some(whisper.models[model_name])]
                          ELSE [CallInit EXCEPT !.model_name = model_name, !.at = "executor"]]
    /\ UNCHANGED orchVars

\* The executor returns the constructed model: "self.models[model_name] = model; return model"
LoadModel_Store(p) ==
    /\ whisper.call[p].at = "executor"
    /\ LET model_name == whisper.call[p].model_name
           model == <<model_name, whisper.loads[model_name] + 1>>
       IN whisper' = [whisper EXCEPT
              !.loads[model_name] = @ + 1,
              !.models = [m \in DOMAIN @ \cup {model_name} |->
                             IF m = model_name THEN model ELSE @[m]],
              !.call[p] = [@ EXCEPT !.at = "idle", !.model = Some(model)]]
    /\ UNCHANGED orchVars

\* The executor raises: ServiceException("Failed to load ... model")
LoadModel_Raise(p) ==
    /\ whisper.call[p].at = "executor"
    /\ whisper' = [whisper EXCEPT !.call[p] = [@ EXCEPT !.at = "idle", !.raised = TRUE]]
    /\ UNCHANGED orchVars

-----------------------------------------------------------------------------
(* A Transcription driven directly through its transition methods *)

\* method: the method called last; arg: its text or message argument;
\* before: the entity before the call; raised, exc: the exception it raised;
\* ret: the value a query returned
EntCallInit ==
    [method |-> "none", arg |-> None, raised |-> FALSE, before |-> None, exc |-> <<>>,
     ret |-> None]

\* One method call on ent: r is the method's outcome
EntApply(method, arg, r) ==
    /\ entCall' = [method |-> method, arg |-> arg, raised |-> r.raised, before |-> ent,
                   exc |-> r.exc, ret |-> None]
    /\ ent' = Some(r.t)
    /\ UNCHANGED svcVars

Ent_mark_as_processing ==
    /\ ~IsNone(ent)
    /\ EntApply("mark_as_processing", None, mark_as_processing(Val(ent)))

Ent_complete ==
    /\ ~IsNone(ent)
    /\ \E text \in TextInputs, pt \in {None, Some("set")} :
          EntApply("complete", Some(text), complete(Val(ent), Some(text), Some("en"), pt))

Ent_fail ==
    /\ ~IsNone(ent)
    /\ \E msg \in MessageInputs : EntApply("fail", Some(msg), fail(Val(ent), Some(msg)))

Ent_mark_llm_processing ==
    /\ ~IsNone(ent)
    /\ EntApply("mark_llm_processing", None, mark_llm_processing(Val(ent)))

Ent_complete_llm_enhancement ==
    /\ ~IsNone(ent)
    /\ \E text \in EnhancedInputs :
          EntApply("complete_llm_enhancement", Some(text),
                   complete_llm_enhancement(Val(ent), Some(text), Some("set")))

Ent_fail_llm_enhancement ==
    /\ ~IsNone(ent)
    /\ \E msg \in MessageInputs :
          EntApply("fail_llm_enhancement", Some(msg),
                   fail_llm_enhancement(Val(ent), Some(msg)))

\* The query can_be_enhanced(): the entity is left as it is
Ent_can_be_enhanced ==
    /\ ~IsNone(ent)
    /\ entCall' = [method |-> "can_be_enhanced", arg |-> None, raised |-> FALSE,
                   before |-> ent, exc |-> <<>>, ret |-> Some(can_be_enhanced(Val(ent)))]
    /\ UNCHANGED <<ent, svcVars>>

EntityNext ==
    \/ Ent_mark_as_processing
    \/ Ent_complete
    \/ Ent_fail
    \/ Ent_mark_llm_processing
    \/ Ent_complete_llm_enhancement
    \/ Ent_fail_llm_enhancement
    \/ Ent_can_be_enhanced

-----------------------------------------------------------------------------
(* Specification *)

EmptyTable == [i \in {} |-> None]

\* The service at start: no rows, no files, every request idle
ServiceInit ==
    /\ transcriptions = EmptyTable
    /\ audio_files = EmptyTable
    /\ blobs = {}
    /\ nextTid = 1
    /\ nextAid = 1
    /\ served = 0
    /\ hist = EmptyTable
    /\ whisper = WhisperInit
    /\ pc = [p \in Procs |-> "idle"]
    /\ loc = [p \in Procs |-> LocInit]
    /\ res = [p \in Procs |-> ResInit]

\* Either an empty service (no rows, no files, every request idle) or a
\* freshly constructed PENDING transcription to drive through its methods
Init ==
    /\ ent \in {None} \cup {Some(NewTranscription(1, 1, None, "base", e, FALSE)) : e \in BOOLEAN}
    /\ entCall = EntCallInit
    /\ tashkeel_sent = {FALSE}
    /\ repo_faults = FALSE
    /\ ServiceInit

\* An empty service with no entity in hand
IdleInit ==
    /\ ent = None
    /\ entCall = EntCallInit
    /\ tashkeel_sent = {FALSE}
    /\ repo_faults = FALSE
    /\ ServiceInit

\* Field values a Transcription dataclass instance can be constructed with
FieldTexts ==
    {None, Some(<<>>), Some(<<" ">>), Some(<<"hi">>), Some(NoSpeech),
     Some(<<" ", "(No speech detected)">>)}

LlmStatuses == {None, Some("pending"), Some("processing"), Some("completed"), Some("failed")}

\* A Transcription constructed with any combination of field values
FieldsInit ==
    /\ ent \in {Some([NewTranscription(1, 1, None, "base", e, FALSE)
                          EXCEPT !.status = st, !.text = tx, !.llm_enhancement_status = ls]) :
                    e \in BOOLEAN, st \in Statuses, tx \in FieldTexts, ls \in LlmStatuses}
    /\ entCall = EntCallInit
    /\ tashkeel_sent = {FALSE}
    /\ repo_faults = FALSE
    /\ ServiceInit

\* An empty service whose upload requests may carry enable_tashkeel = true
TashkeelInit ==
    /\ ent = None
    /\ entCall = EntCallInit
    /\ tashkeel_sent = BOOLEAN
    /\ repo_faults = FALSE
    /\ ServiceInit

Step(p) ==
    \/ Transcribe_Validate(p)
    \/ Transcribe_Save(p)
    \/ Transcribe_Probe(p)
    \/ Transcribe_Cleanup(p)
    \/ Transcribe_CreateAudioFile(p)
    \/ CreateTranscription(p)
    \/ UpdateProcessing(p)
    \/ Speech(p)
    \/ UpdateLlm(p)
    \/ Llm(p)
    \/ Final(p)
    \/ Retranscribe_Start(p)
    \/ Retranscribe_Check(p)
    \/ Enhance_Start(p)
    \/ Enhance_Update(p)
    \/ Enhance_Llm(p)
    \/ Enhance_Final(p)
    \/ DeleteTranscription_Start(p)
    \/ DeleteTranscription_List(p)
    \/ DeleteTranscription_Delete(p)
    \/ DeleteTranscription_GetAudio(p)
    \/ DeleteTranscription_Blob(p)
    \/ DeleteTranscription_Audio(p)
    \/ DeleteAudioFile_Start(p)
    \/ DeleteAudioFile_List(p)
    \/ DeleteAudioFile_Loop(p)
    \/ DeleteAudioFile_Audio(p)

\* Requests are served one at a time
Next == Step(Main) \/ EntityNext

Spec == Init /\ [][Next]_vars

\* The transition methods and queries on a Transcription with any field values
EntitySpec == FieldsInit /\ [][EntityNext]_vars

\* The use cases serving uploads with and without enable_tashkeel
TashkeelNext == Step(Main)

\* The transcription a finished Transcribe or Retranscribe leaves: speech
\* returned " hi\n" and, when enhancement was asked for, the LLM call raised
Transcribed(id, afid, model, enable) ==
    LET c == complete(mark_as_processing(NewTranscription(id, afid, None, model, enable, FALSE)).t,
                      Some(<<" ", "hi", "\n">>), Some("en"), Some("set")).t
    IN IF enable
       THEN fail_llm_enhancement(mark_llm_processing(c).t, Some(<<"timeout", " ">>)).t
       ELSE c

\* The tables after one upload (model base, enhancement failed) and k - 1
\* retranscriptions of it (model tiny, no enhancement)
SeededTranscriptions(k) ==
    [id \in 1..k |-> ToModel(IF id = 1 THEN Transcribed(1, 1, "base", TRUE)
                                        ELSE Transcribed(id, 1, "tiny", FALSE))]

SeededAudioFiles(k) ==
    [id \in (IF k = 0 THEN {} ELSE {1}) |->
        [id |-> 1, file_path |-> FilePath(1), duration_seconds |-> Some(max_duration_seconds)]]

\* A quiescent service: empty, or holding one audio file with its
\* transcriptions left by earlier requests; each of the concurrent clients
\* has one request to send
ConcurrentInit ==
    /\ ent = None
    /\ entCall = EntCallInit
    /\ tashkeel_sent = {FALSE}
    /\ repo_faults = FALSE
    /\ whisper = WhisperInit
    /\ \E k \in 0..MaxTranscriptions :
          /\ transcriptions = SeededTranscriptions(k)
          /\ audio_files = SeededAudioFiles(k)
          /\ blobs = {FilePath(id) : id \in DOMAIN SeededAudioFiles(k)}
          /\ nextTid = k + 1
          /\ nextAid = IF k = 0 THEN 1 ELSE 2
    /\ served = MaxRequests - Cardinality(Procs)
    /\ hist = EmptyTable
    /\ pc = [p \in Procs |-> "idle"]
    /\ loc = [p \in Procs |-> LocInit]
    /\ res = [p \in Procs |-> ResInit]

\* Requests served concurrently on one event loop: a request runs until it
\* suspends, and only then may another request run
ConcurrentNext == \E p \in Procs : Step(p)

ConcurrentSpec == ConcurrentInit /\ [][ConcurrentNext]_vars

\* Concurrent transcribe calls on the speech service singleton
WhisperNext ==
    \E p \in Procs :
        \/ LoadModel_Check(p)
        \/ LoadModel_Store(p)
        \/ LoadModel_Raise(p)

WhisperSpec == IdleInit /\ [][WhisperNext]_vars

TashkeelSpec == TashkeelInit /\ [][TashkeelNext]_vars

\* An empty service whose database may fail a write
FaultInit ==
    /\ ent = None
    /\ entCall = EntCallInit
    /\ tashkeel_sent = {FALSE}
    /\ repo_faults = TRUE
    /\ ServiceInit

\* The use cases served one request at a time
FaultNext == Step(Main)

FaultSpec == FaultInit /\ [][FaultNext]_vars

-----------------------------------------------------------------------------
(* Properties *)

\* Request p has finished an execution of use case op
Finished(p, op) == pc[p] = "idle" /\ res[p].kind # "none" /\ res[p].frame.op = op

Elems(seq) == {seq[k] : k \in 1..Len(seq)}

\* C1: in Transcribe and Retranscribe, once speech_service.transcribe has
\* returned, the returned and the persisted transcription are COMPLETED
\* whatever the LLM port does (text, empty text, exception with any message).
C1_EnhancementNeverFailsTranscription ==
    \A p \in Procs :
        /\ Finished(p, "transcribe") \/ Finished(p, "retranscribe")
        /\ res[p].frame.speech = "returned"
        => /\ res[p].kind = "return"
           /\ Val(res[p].value).status = COMPLETED
           /\ Val(res[p].frame.t).id \in DOMAIN transcriptions
           /\ transcriptions[Val(res[p].frame.t).id].status = COMPLETED

\* C2: in Transcribe, an exception of speech_service.transcribe (any message)
\* never leaves execute(): it returns, and the returned and the persisted
\* transcription are FAILED with a non-empty error_message.
C2_SpeechFailureCaptured ==
    \A p \in Procs :
        /\ Finished(p, "transcribe")
        /\ res[p].frame.speech = "raised"
        => /\ res[p].kind = "return"
           /\ Val(res[p].value).status = FAILED
           /\ HasText(Val(res[p].value).error_message)
           /\ transcriptions[Val(res[p].frame.t).id].status = FAILED
           /\ HasText(transcriptions[Val(res[p].frame.t).id].error_message)

\* C3: status = FAILED implies a present, non-empty error_message, for an
\* entity driven through any sequence of transition methods (rejected calls
\* included) and for every persisted row.
C3_FailedHasErrorMessage ==
    /\ ~IsNone(ent) /\ Val(ent).status = FAILED => HasText(Val(ent).error_message)
    /\ \A i \in DOMAIN transcriptions :
          transcriptions[i].status = FAILED => HasText(transcriptions[i].error_message)

\* C3 witness: an orchestration has returned and left a FAILED row
C3_Witness ==
    \E p \in Procs :
        /\ Finished(p, "transcribe") \/ Finished(p, "retranscribe")
        /\ res[p].kind = "return"
        /\ transcriptions[Val(res[p].frame.t).id].status = FAILED

\* Status moves of the lifecycle PENDING -> PROCESSING -> COMPLETED | FAILED;
\* fail() from PENDING is legal too (FAILED is reached from a non-terminal
\* status), and a step may leave the status as it is.
StatusMoveAllowed(a, b) ==
    \/ a = b
    \/ a = PENDING /\ b \in {PROCESSING, FAILED}
    \/ a = PROCESSING /\ b \in {COMPLETED, FAILED}

\* C4: COMPLETED and FAILED are terminal and the status only moves
\* PENDING -> PROCESSING -> COMPLETED or FAILED: no step changes the status
\* of a COMPLETED or FAILED transcription, neither a transition method on
\* the entity nor an orchestration on a persisted row.
C4_TerminalStatus ==
    [][/\ ~IsNone(ent) => StatusMoveAllowed(Val(ent).status, Val(ent').status)
       /\ \A i \in DOMAIN transcriptions \cap DOMAIN transcriptions' :
             StatusMoveAllowed(transcriptions[i].status, transcriptions'[i].status)]_vars

\* C5: fail_llm_enhancement leaves status, text and enhanced_text unchanged,
\* and after an Enhance execution in which the LLM port raised the persisted
\* row has its status (COMPLETED) and text as before, llm_enhancement_status
\* = failed and llm_error_message populated.
C5_EnhancementFailureRecorded ==
    /\ entCall.method = "fail_llm_enhancement"
       => /\ Val(ent).status = Val(entCall.before).status
          /\ Val(ent).text = Val(entCall.before).text
          /\ Val(ent).enhanced_text = Val(entCall.before).enhanced_text
    /\ \A p \in Procs :
          /\ Finished(p, "enhance")
          /\ res[p].frame.llm = "raised"
          => LET row == transcriptions[res[p].frame.arg]
                 before == Val(res[p].frame.before)
             IN /\ row.status = COMPLETED
                /\ row.status = before.status
                /\ row.text = before.text
                /\ row.llm_enhancement_status = Some("failed")
                /\ HasText(row.llm_error_message)

C7_RetranscribeIdempotent ==
    \A p \in Procs :
        /\ Finished(p, "retranscribe")
        /\ \E i \in Elems(res[p].frame.all_transcriptions) :
              /\ i \in DOMAIN transcriptions
              /\ transcriptions[i].model = res[p].frame.dto.model
              /\ transcriptions[i].status = COMPLETED
        => /\ res[p].kind = "return"
           /\ IsNone(res[p].frame.t)
           /\ res[p].frame.speech = "none"
           /\ Val(res[p].value).id \in Elems(res[p].frame.all_transcriptions)
           /\ Val(res[p].value).audio_file_id = res[p].frame.arg
           /\ Val(res[p].value).model = res[p].frame.dto.model
           /\ Val(res[p].value).status = COMPLETED
           /\ Val(res[p].value) = ToEntity(transcriptions[Val(res[p].value).id])

\* C7 witness: Retranscribe has returned an existing COMPLETED transcription
C7_Witness ==
    \E p \in Procs :
        /\ Finished(p, "retranscribe")
        /\ res[p].kind = "return"
        /\ IsNone(res[p].frame.t)
        /\ Val(res[p].value).status = COMPLETED

C9_DeleteAudioFileRemovesAll ==
    \A p \in Procs :
        /\ Finished(p, "delete_audio_file")
        /\ ~IsNone(res[p].frame.audio_file)
        => /\ res[p].frame.arg \notin DOMAIN audio_files
           /\ \A i \in DOMAIN transcriptions :
                 transcriptions[i].audio_file_id # res[p].frame.arg
           /\ ~exists(blobs, Val(res[p].frame.audio_file).file_path)

\* C10: Transcribe with enable_llm_enhancement set and an empty or
\* whitespace-only transcript ends COMPLETED with the "(No speech detected)"
\* text and llm_enhancement_status still None.
C10_NoSpeechNotEnhanced ==
    \A p \in Procs :
        /\ Finished(p, "transcribe")
        /\ res[p].frame.dto.enable_llm_enhancement
        /\ ~IsNone(res[p].frame.result)
        /\ Strip(Val(res[p].frame.result)) = <<>>
        => LET row == transcriptions[Val(res[p].frame.t).id]
           IN /\ res[p].kind = "return"
              /\ Val(res[p].value).status = COMPLETED
              /\ Val(res[p].value).text = Some(NoSpeech)
              /\ Val(res[p].value).llm_enhancement_status = None
              /\ row.status = COMPLETED
              /\ row.text = Some(NoSpeech)
              /\ row.llm_enhancement_status = None

\* A transcription the LLM port may be given: COMPLETED, flagged for
\* enhancement, with a text that is neither blank nor the sentinel
PortEligible(t) ==
    /\ t.status = COMPLETED
    /\ t.enable_llm_enhancement
    /\ HasText(t.text)
    /\ Val(t.text) # NoSpeech

\* C11: Transcribe, Retranscribe and Enhance invoke the LLM port only for a
\* COMPLETED transcription with enable_llm_enhancement set and a text that is
\* non-empty and not "(No speech detected)"; never after the speech step
\* failed or produced the sentinel.
C11_LlmPortGuard ==
    \A p \in Procs :
        /\ pc[p] \in {"llm", "e_llm"}
           => /\ PortEligible(Val(loc[p].t))
              /\ Val(loc[p].t).id \in DOMAIN transcriptions
              /\ PortEligible(ToEntity(transcriptions[Val(loc[p].t).id]))
        /\ res[p].kind # "none" /\ ~IsNone(res[p].frame.port)
           => /\ HasText(Val(res[p].frame.port).text)
              /\ Val(Val(res[p].frame.port).text) # NoSpeech
              /\ res[p].frame.op \in {"transcribe", "retranscribe"}
                 => /\ res[p].frame.speech = "returned"
                    /\ HasText(res[p].frame.result)
                    /\ Val(res[p].frame.result) # NoSpeech

\* C11 witness: a Transcribe execution has invoked the LLM port
C11_Witness ==
    \E p \in Procs :
        /\ Finished(p, "transcribe")
        /\ ~IsNone(res[p].frame.port)

\* The guard of can_be_enhanced() in the words of its contract
Enhanceable(t) ==
    /\ t.enable_llm_enhancement
    /\ t.status = COMPLETED
    /\ HasText(t.text)
    /\ Val(t.text) # NoSpeech
    /\ t.llm_enhancement_status \in {None, Some("failed")}

\* C12: for every combination of field values can_be_enhanced() is true iff
\* enable_llm_enhancement is set, status is COMPLETED, text is present, not
\* blank and not the sentinel, and llm_enhancement_status is None or failed;
\* it is false without the flag and while enhancement is processing or
\* completed.
C12_CanBeEnhancedIff ==
    entCall.method = "can_be_enhanced"
    => /\ Val(entCall.ret) <=> Enhanceable(Val(ent))
       /\ ~Val(ent).enable_llm_enhancement => ~Val(entCall.ret)
       /\ Val(ent).llm_enhancement_status \in {Some("processing"), Some("completed")}
          => ~Val(entCall.ret)

\* C12 witness: can_be_enhanced() has returned True for a failed enhancement
C12_Witness ==
    /\ entCall.method = "can_be_enhanced"
    /\ entCall.ret = Some(TRUE)
    /\ Val(ent).llm_enhancement_status = Some("failed")

\* Request p is executing or has finished Enhance on a transcription whose
\* enhancement had failed; f is its locals
RetryOf(f) ==
    /\ f.op = "enhance"
    /\ ~IsNone(f.before)
    /\ Val(f.before).llm_enhancement_status = Some("failed")

\* C13: Enhance on a COMPLETED transcription with llm_enhancement_status =
\* failed and an LLM port that returns an enhanced text moves
\* llm_enhancement_status failed -> processing -> completed, persisting both
\* steps, sets enhanced_text and clears llm_error_message; status and text
\* stay as they were.
C13_RetryAfterFailure ==
    \A p \in Procs :
        /\ pc[p] = "e_llm" /\ RetryOf(loc[p])
           => LET row == transcriptions[loc[p].arg]
                  before == Val(loc[p].before)
              IN /\ row.llm_enhancement_status = Some("processing")
                 /\ row.status = before.status
                 /\ row.text = before.text
        /\ /\ Finished(p, "enhance")
           /\ RetryOf(res[p].frame)
           /\ res[p].frame.llm = "returned"
           /\ HasText(res[p].frame.enhanced)
           => LET row == transcriptions[res[p].frame.arg]
                  before == Val(res[p].frame.before)
              IN /\ res[p].kind = "return"
                 /\ Val(res[p].value) = ToEntity(row)
                 /\ row.llm_enhancement_status = Some("completed")
                 /\ row.enhanced_text = Some(Strip(Val(res[p].frame.enhanced)))
                 /\ row.llm_error_message = None
                 /\ before.status = COMPLETED
                 /\ row.status = before.status
                 /\ row.text = before.text

\* C13 witness: a retried enhancement has been completed and persisted
C13_Witness ==
    \E p \in Procs :
        /\ Finished(p, "enhance")
        /\ RetryOf(res[p].frame)
        /\ HasText(Val(res[p].frame.before).llm_error_message)
        /\ res[p].frame.llm = "returned"
        /\ transcriptions[res[p].frame.arg].llm_enhancement_status = Some("completed")

\* C14: after an enhancement failure a transcription can be retried exactly
\* once: over any sequence of Enhance calls, mark_llm_processing() succeeds at
\* most once on a transcription whose enhancement has failed.
C14_SingleRetry ==
    \A id \in DOMAIN hist : hist[id].retries <= 1

\* In this step request p was accepted: its locals after the step
Begun(p) == pc[p] = "idle" /\ served' # served

LocalsAfter(p) == IF pc'[p] = "idle" THEN res'[p].frame ELSE loc'[p]

\* C15: Enhance raises, without invoking the LLM port and without changing
\* any persisted field of any transcription, when the id does not resolve or
\* can_be_enhanced() is false for the stored transcription.
C15_EnhanceRejected ==
    [][\A p \in Procs :
          Begun(p) /\ LocalsAfter(p).op = "enhance"
          => LET f == LocalsAfter(p)
                 rejected == \/ f.arg \notin DOMAIN transcriptions
                             \/ ~Enhanceable(ToEntity(transcriptions[f.arg]))
             IN rejected
                => /\ pc'[p] = "idle"
                   /\ res'[p].kind = "raise"
                   /\ res'[p].exc # <<>>
                   /\ IsNone(f.port)
                   /\ f.llm = "none"
                   /\ transcriptions' = transcriptions]_vars

\* C15 witness: Enhance has been refused for a transcription whose
\* enhancement was already completed
C15_Witness ==
    \E p \in Procs :
        /\ Finished(p, "enhance")
        /\ res[p].kind = "raise"
        /\ ~IsNone(res[p].frame.before)
        /\ Val(res[p].frame.before).llm_enhancement_status = Some("completed")
        /\ IsNone(res[p].frame.port)

\* An upload the pre-storage validation must refuse
BadUpload(dto) ==
    \/ dto.mime_type \notin SUPPORTED_AUDIO_TYPES
    \/ dto.file_size <= 0
    \/ dto.file_size > max_file_size_mb * 1024 * 1024

\* C16: Transcribe refuses an upload with an unsupported MIME type, or a
\* size that is not positive or above the ceiling, before file_storage.save
\* is called: no blob is written, no AudioFile or Transcription row created.
C16_RejectedBeforeStorage ==
    [][\A p \in Procs :
          Begun(p) /\ LocalsAfter(p).op = "transcribe" /\ BadUpload(LocalsAfter(p).dto)
          => /\ pc'[p] = "idle"
             /\ res'[p].kind = "raise"
             /\ IsNone(res'[p].frame.audio_file)
             /\ blobs' = blobs
             /\ nextAid' = nextAid
             /\ audio_files' = audio_files
             /\ transcriptions' = transcriptions]_vars

\* C16 witness: an upload above the size ceiling has been refused
C16_Witness ==
    \E p \in Procs :
        /\ Finished(p, "transcribe")
        /\ res[p].kind = "raise"
        /\ res[p].frame.dto.file_size > max_file_size_mb * 1024 * 1024
        /\ IsNone(res[p].frame.audio_file)

\* C17: complete() succeeds only from PROCESSING; called on a PENDING,
\* COMPLETED or FAILED transcription it raises and leaves every field of the
\* transcription as it was.
C17_CompleteOnlyFromProcessing ==
    entCall.method = "complete"
    => LET before == Val(entCall.before)
       IN /\ entCall.raised <=> before.status # PROCESSING
          /\ before.status # PROCESSING
             => /\ entCall.exc # <<>>
                /\ ent = entCall.before
          /\ before.status = PROCESSING => Val(ent).status = COMPLETED

\* C17 witness: complete() has been refused on a COMPLETED transcription
C17_Witness ==
    /\ entCall.method = "complete"
    /\ entCall.raised
    /\ Val(entCall.before).status = COMPLETED
    /\ ~IsNone(Val(entCall.before).text)

\* C18: no Transcription row is removed while its persisted status is
\* PROCESSING: Delete Transcription and Delete AudioFile remove only rows
\* for which can_be_deleted() is true.
C18_NoDeleteWhileProcessing ==
    [][\A id \in DOMAIN transcriptions \ DOMAIN transcriptions' :
           /\ transcriptions[id].status # PROCESSING
           /\ can_be_deleted(ToEntity(transcriptions[id]))]_vars

TextPresentOrNone(t) ==
    /\ IsNone(t.text) \/ HasText(t.text)
    /\ t.text = Some(NoSpeech) => ~can_be_enhanced(ToEntity(t))

\* C19: in every reachable state the text of a transcription (the entity in
\* hand, every persisted row, every entity a request holds) is None or a
\* string with a non-whitespace character; complete() called with an empty or
\* whitespace-only text stores "(No speech detected)"; can_be_enhanced() is
\* false for a transcription whose text is that sentinel.
C19_TextNeverBlank ==
    /\ ~IsNone(ent) => TextPresentOrNone(Val(ent))
    /\ \A id \in DOMAIN transcriptions : TextPresentOrNone(transcriptions[id])
    /\ \A p \in Procs : ~IsNone(loc[p].t) => TextPresentOrNone(Val(loc[p].t))
    /\ (entCall.method = "complete" /\ ~entCall.raised /\ ~HasText(entCall.arg))
       => Val(ent).text = Some(NoSpeech)

\* C19 witness: complete() has succeeded with a whitespace-only text
C19_Witness ==
    /\ entCall.method = "complete"
    /\ ~entCall.raised
    /\ entCall.arg = Some(<<" ">>)
    /\ Val(ent).text = Some(NoSpeech)
    /\ Val(ent).status = COMPLETED

\* C20: enable_tashkeel is passed through unchanged: whenever a request has
\* called the LLM port for a transcription, the enable_tashkeel argument of
\* that call equals the enable_tashkeel flag of the upload that created the
\* transcription.
C20_TashkeelPassedThrough ==
    \A p \in Procs :
        LET l == IF pc[p] = "idle" THEN res[p].frame ELSE loc[p]
        IN (~IsNone(l.port) /\ ~IsNone(l.t) /\ Val(l.t).id \in DOMAIN hist)
           => Val(l.port).enable_tashkeel = hist[Val(l.t).id].enable_tashkeel

\* The persisted row of the transcription request p holds
Persisted(p) == transcriptions[Val(loc[p].t).id]

\* C21: within one Transcribe execution the steps are sequential: the blob is
\* stored before the duration probe runs, the AudioFile row is persisted
\* before the Transcription row, the Transcription is persisted as PENDING
\* before it is persisted as PROCESSING, the speech port is invoked only after
\* PROCESSING has been persisted, and the LLM port is invoked only after
\* llm_enhancement_status = processing has been persisted.
C21_TranscribeStepsInOrder ==
    \A p \in Procs :
        loc[p].op = "transcribe"
        => /\ pc[p] = "t_probe" => Val(loc[p].audio_file).file_path \in blobs
           /\ pc[p] = "t_create_audio"
              => /\ Val(loc[p].audio_file).file_path \in blobs
                 /\ Val(loc[p].audio_file).id \notin DOMAIN audio_files
                 /\ IsNone(loc[p].t)
           /\ pc[p] = "create_t"
              => /\ Val(loc[p].audio_file).id \in DOMAIN audio_files
                 /\ Val(loc[p].t).id \notin DOMAIN transcriptions
                 /\ Val(loc[p].t).status = PENDING
           /\ pc[p] = "upd_processing"
              => /\ Val(loc[p].t).id \in DOMAIN transcriptions
                 /\ Persisted(p).status = PENDING
                 /\ loc[p].speech = "none"
           /\ pc[p] = "speech"
              => /\ Val(loc[p].t).id \in DOMAIN transcriptions
                 /\ Persisted(p).status = PROCESSING
                 /\ loc[p].speech = "none"
           /\ pc[p] = "upd_llm"
              => /\ Persisted(p).llm_enhancement_status = None
                 /\ IsNone(loc[p].port)
           /\ pc[p] = "llm"
              => /\ Persisted(p).status = COMPLETED
                 /\ Persisted(p).llm_enhancement_status = Some("processing")
                 /\ IsNone(loc[p].port)
           /\ ~IsNone(loc[p].port) => pc[p] = "final"

\* C21 witness: a Transcribe is about to call the LLM port, with
\* llm_enhancement_status = processing already persisted
C21_Witness ==
    \E p \in Procs :
        /\ loc[p].op = "transcribe"
        /\ pc[p] = "llm"
        /\ loc[p].speech = "returned"
        /\ Persisted(p).llm_enhancement_status = Some("processing")

\* Request p has finished an orchestration that got as far as working on a
\* persisted transcription
WorkedOn(p) ==
    /\ pc[p] = "idle"
    /\ res[p].kind # "none"
    /\ res[p].frame.op \in {"transcribe", "retranscribe", "enhance"}
    /\ ~IsNone(res[p].frame.t)
    /\ Val(res[p].frame.t).id \in DOMAIN transcriptions
    /\ res[p].frame.op = "enhance" => can_be_enhanced(Val(res[p].frame.before))

\* C22: no in-flight marker survives an orchestration: when an execution of
\* Transcribe, Retranscribe or Enhance has ended (return or raise), the
\* persisted transcription it worked on is COMPLETED or FAILED and its
\* llm_enhancement_status is not processing.
C22_NoInFlightMarkerLeft ==
    \A p \in Procs :
        WorkedOn(p)
        => LET row == transcriptions[Val(res[p].frame.t).id]
           IN /\ row.status \in {COMPLETED, FAILED}
              /\ row.llm_enhancement_status # Some("processing")

\* C23: the model cache is single-flight per model name: under any
\* interleaving of concurrent transcribe calls a model is loaded at most once
\* per process, and every caller gets that one instance.
C23_ModelLoadedOnce ==
    /\ \A m \in Models : whisper.loads[m] <= 1
    /\ \A p \in Procs :
          ~IsNone(whisper.call[p].model)
          => Val(whisper.call[p].model) = <<whisper.call[p].model_name, 1>>

\* C24: a successful enhancement is never lost: under any interleaving of
\* concurrent Enhance executions on the same transcription, once
\* llm_enhancement_status = completed has been persisted with its
\* enhanced_text, no later write changes either field of that row.
C24_EnhancementNeverLost ==
    [][\A id \in DOMAIN transcriptions \cap DOMAIN transcriptions' :
           transcriptions[id].llm_enhancement_status = Some("completed")
           => /\ transcriptions'[id].llm_enhancement_status = Some("completed")
              /\ transcriptions'[id].enhanced_text = transcriptions[id].enhanced_text
              /\ ~IsNone(transcriptions[id].enhanced_text)]_vars

\* C24 witness: two Enhance executions on the same transcription have both
\* ended, one rejected while the other was waiting for the LLM, and the
\* enhancement of the other is persisted as completed
C24_Witness ==
    \E p, q \in Procs :
        /\ p # q
        /\ Finished(p, "enhance")
        /\ Finished(q, "enhance")
        /\ res[p].frame.arg = res[q].frame.arg
        /\ res[p].kind = "return"
        /\ res[q].kind = "raise"
        /\ Val(res[q].frame.before).llm_enhancement_status = Some("processing")
        /\ transcriptions[res[p].frame.arg].llm_enhancement_status = Some("completed")

\* Request p is a Retranscribe in flight that has persisted its new row
RowCreated(p) ==
    /\ pc[p] # "idle"
    /\ loc[p].op = "retranscribe"
    /\ ~IsNone(loc[p].t)
    /\ Val(loc[p].t).id \in DOMAIN transcriptions

\* Request p is a Retranscribe in flight that has invoked the speech service
SpeechInvoked(p) ==
    /\ RowCreated(p)
    /\ pc[p] = "speech" \/ loc[p].speech # "none"

\* C25: Retranscribe is idempotent under concurrency: of two concurrent
\* Retranscribe executions with the same (audio_file_id, model) at most one
\* creates a Transcription row and at most one invokes the speech service.
C25_RetranscribeIdempotent ==
    \A p, q \in Procs :
        (/\ p # q
         /\ loc[p].op = "retranscribe" /\ loc[q].op = "retranscribe"
         /\ loc[p].arg = loc[q].arg
         /\ loc[p].dto.model = loc[q].dto.model)
        => /\ ~(RowCreated(p) /\ RowCreated(q))
           /\ ~(SpeechInvoked(p) /\ SpeechInvoked(q))

\* The transcriptions of audio file afid
RowsOf(afid) == {id \in DOMAIN transcriptions : transcriptions[id].audio_file_id = afid}

\* Request p has finished a Delete Transcription that deleted a row
Deleted(p) ==
    /\ Finished(p, "delete_transcription")
    /\ ~IsNone(res[p].frame.t)
    /\ res[p].frame.success

C27_ReferentialIntegrity ==
    \A id \in DOMAIN transcriptions :
        transcriptions[id].audio_file_id \in DOMAIN audio_files

\* A Retranscribe awaiting the speech service has lost its row and its audio
\* file to a Delete AudioFile served in the meantime
C27_Witness ==
    \E p, q \in Procs :
        /\ p # q
        /\ pc[q] = "speech" /\ loc[q].op = "retranscribe"
        /\ Finished(p, "delete_audio_file")
        /\ res[p].kind = "return"
        /\ res[p].frame.arg = loc[q].arg
        /\ loc[q].arg \notin DOMAIN audio_files
        /\ Val(loc[q].t).id \notin DOMAIN transcriptions

\* C28: the enhancement sub-state machine is attached only to COMPLETED
\* transcriptions: in every state persisted by Transcribe, Retranscribe and
\* Enhance, llm_enhancement_status different from None implies
\* status = COMPLETED.
C28_EnhancementOnlyOnCompleted ==
    \A id \in DOMAIN transcriptions :
        ~IsNone(transcriptions[id].llm_enhancement_status)
        => transcriptions[id].status = COMPLETED

\* C29: the Transcription persisted and returned by Transcribe carries the
\* request's flags unchanged: its vad_filter_used equals the request's VAD
\* flag and its enable_tashkeel equals the request's tashkeel flag, also after
\* the repository round trip (the row read back as an entity).
C29_FlagsCarried ==
    \A p \in Procs :
        (Finished(p, "transcribe") /\ res[p].kind = "return")
        => LET dto == res[p].frame.dto
               returned == Val(res[p].value)
           IN /\ returned.vad_filter_used = dto.vad_filter
              /\ returned.enable_tashkeel = dto.enable_tashkeel
              /\ returned.id \in DOMAIN transcriptions
                 => LET stored == ToEntity(transcriptions[returned.id])
                    IN /\ stored.vad_filter_used = dto.vad_filter
                       /\ stored.enable_tashkeel = dto.enable_tashkeel

\* C30: if Transcribe raises for any reason after the storage step has
\* written the blob (including a repository failure while persisting the
\* AudioFile row or the PENDING Transcription row), the blob no longer exists
\* afterwards and no AudioFile row without any Transcription is left behind.
C30_RaiseCleansUp ==
    \A p \in Procs :
        (/\ Finished(p, "transcribe")
         /\ res[p].kind = "raise"
         /\ ~IsNone(res[p].frame.audio_file))
        => LET af == Val(res[p].frame.audio_file)
           IN /\ af.file_path \notin blobs
              /\ af.id \in DOMAIN audio_files => RowsOf(af.id) # {}

====
